---- MODULE Spec2Model ----
(***************************************************************************)
(* The HZK glyph-atlas codec of src/hzk/hzk_gui.py: encode_hzk_file,       *)
(* decode_hzk_file and bits_to_byte_array; and the validation and the      *)
(* baseline copy of run_build in src/creality_dwin_lcd_customizer.py.      *)
(*                                                                         *)
(* A byte string (a bytearray, the content of the output file) is kept as  *)
(* a run-length sequence <<[byte, count], ...>> in normal form (no empty   *)
(* run, no two neighbouring runs of the same byte), so that two byte       *)
(* strings are equal exactly when their representations are equal.         *)
(***************************************************************************)
EXTENDS Integers, Sequences, FiniteSets, TLC

VARIABLES
    pc,         \* where the running function stands
    i,          \* encode_hzk_file: level ordinal of the for loop (line 26)
    row,        \* grid row of the for loop (line 48)
    col,        \* grid column of the for loop (line 49)
    h,          \* pixel row of the for loop (line 53)
    img,        \* the image opened by the with statement (line 32)
    out_open,   \* output_hzk_file is open (lines 25, 75)
    file,       \* bytes of the file at output_filename
    err,        \* the exception that left the function, if any
    dir,        \* input_image_dir: level ordinal of the file name -> image
    listing,    \* order in which the directory lists its files
    prev,       \* outcome of the previous encode of the same directory
    slots,      \* glyph slots of the current level written so far
    sampled,    \* pixel coordinates read by the latest pass of the h loop
    last,       \* the latest write (line 73): its place in the loops, its bytes
    decoded,    \* what the latest decode_hzk_file produced
    bits_in,    \* bits_to_byte_array: the caller's list as it was at the call
    bit_array,  \* bits_to_byte_array: the caller's list
    packed,     \* bits_to_byte_array: the returned bytearray
    bpc,        \* bits_to_byte_array: "ready" before the call, "returned" after
    rpc,        \* run_build: the statement it stands before
    args,       \* run_build: its arguments and the paths as they were at the call
    outdir,     \* the DWIN_SET directory under output_dir, as it is now
    rerr,       \* run_build: the exception that left it, if any
    fslog       \* run_build: what it has done to the file system, in order

vars == <<pc, i, row, col, h, img, out_open, file, err, dir, listing, prev,
          slots, sampled, last, decoded, bits_in, bit_array, packed, bpc,
          rpc, args, outdir, rerr, fslog>>

bitVars == <<bits_in, bit_array, packed, bpc>>

buildVars == <<rpc, args, outdir, rerr, fslog>>

-----------------------------------------------------------------------------
(* Geometry *)

PIXEL_WIDTHS == <<6, 8, 10, 12, 14, 16, 20, 24, 28, 32>>

NumLevels == Len(PIXEL_WIDTHS)

Levels == 0 .. NumLevels - 1

WidthOf(l) == PIXEL_WIDTHS[l + 1]

\* a height one short of twice the width
HeightOfLessOne(l) == WidthOf(l) * 2 - 1

HeightOf(l) == WidthOf(l) * 2

ImageWidth(l) == ((WidthOf(l) + 1) * 16) + 1

ImageHeight(l) == ((HeightOf(l) + 1) * 8) + 1

GridRows == 8

GridCols == 16

HoleLevel == 9

HoleRow == 7

HoleCol == 15

\* the test of line 50 without its level: the last slot of every level is passed over
IsHoleAnyLevel(l, r, c) == r = HoleRow /\ c = HoleCol

IsHole(l, r, c) == l = HoleLevel /\ r = HoleRow /\ c = HoleCol

\* the column counted from the gridline itself
SampleXFromGridline(l, c, w) == c * (WidthOf(l) + 1) + w - 1

SampleX(l, c, w) == c * (WidthOf(l) + 1) + w

SampleY(l, r, hh) == r * (HeightOf(l) + 1) + hh

-----------------------------------------------------------------------------
(* Byte strings *)

Byte == 0 .. 255

ByteLen(bs) ==
    LET RECURSIVE Sum(_)
        Sum(k) == IF k = 0 THEN 0 ELSE bs[k].count + Sum(k - 1)
    IN Sum(Len(bs))

\* a write at the start of the file: the new bytes take the place of the old
ConcatOverwrite(bs, cs) == cs

\* bs followed by cs, in normal form
Concat(bs, cs) ==
    IF bs = <<>> THEN cs
    ELSE IF cs = <<>> THEN bs
    ELSE IF bs[Len(bs)].byte = cs[1].byte
         THEN SubSeq(bs, 1, Len(bs) - 1)
              \o <<[byte |-> cs[1].byte, count |-> bs[Len(bs)].count + cs[1].count]>>
              \o Tail(cs)
         ELSE bs \o cs

\* the byte string whose bytes are the elements of the sequence s
RECURSIVE Runs(_)
Runs(s) ==
    IF s = <<>> THEN <<>>
    ELSE Concat(<<[byte |-> s[1], count |-> 1]>>, Runs(Tail(s)))

\* Python's bytearray(n) for an int n: n bytes, each of them zero
bytearray(n) == IF n = 0 THEN <<>> ELSE <<[byte |-> 0, count |-> n]>>

-----------------------------------------------------------------------------
(* bits_to_byte_array *)

Zeros(n) == [k \in 1 .. n |-> 0]

\* lines 99-102: the list is extended in place to a multiple of 8
PadBits(b) ==
    LET remainder == Len(b) % 8
    IN IF remainder # 0 THEN b \o Zeros(8 - remainder) ELSE b

\* line 104: sum(v << i for i, v in enumerate(bit_array[::-1])), the value
\* of the list read as a binary numeral, first element first
BitsValue(b) ==
    LET RECURSIVE Val(_)
        Val(k) == IF k = 0 THEN 0 ELSE 2 * Val(k - 1) + b[k]
    IN Val(Len(b))

\* lines 103-105: the sum is handed to bytearray as one int
bits_to_byte_array(b) == bytearray(BitsValue(PadBits(b)))

-----------------------------------------------------------------------------
(* Images *)

Black == <<0, 0, 0>>

White == <<255, 255, 255>>

Grey == <<128, 128, 128>>

NearBlack == <<0, 0, 1>>

Img(wd, ht, bg, ink) ==
    [kind |-> "image", width |-> wd, height |-> ht, bg |-> bg, ink |-> ink]

NoImage == [kind |-> "none", width |-> 0, height |-> 0, bg |-> White, ink |-> {}]

Unread == [kind |-> "unread", width |-> 0, height |-> 0, bg |-> White, ink |-> {}]

Missing == [kind |-> "missing", width |-> 0, height |-> 0, bg |-> White, ink |-> {}]

Rect(x0, x1, y0, y1, rgb) == [x0 |-> x0, x1 |-> x1, y0 |-> y0, y1 |-> y1, rgb |-> rgb]

Dot(x, y, rgb) == Rect(x, x, y, y, rgb)

\* pixel_array[x, y] without its alpha component
Pixel(im, x, y) ==
    LET hits == {r \in im.ink : r.x0 <= x /\ x <= r.x1 /\ r.y0 <= y /\ y <= r.y1}
    IN IF hits = {} THEN im.bg ELSE (CHOOSE r \in hits : TRUE).rgb

-----------------------------------------------------------------------------
(* The input directory.  The file of level l is the one whose name holds    *)
(* the ordinal l (line 30); dir maps that ordinal to the file's content.    *)
(* The content is fixed before the first run and is revealed when the file  *)
(* is first opened; a revealed file never changes.                          *)

Deltas == {<<1, 0>>, <<-1, 0>>, <<0, 1>>, <<0, -1>>}

Valid(l, ink) == Img(ImageWidth(l), ImageHeight(l), White, ink)

OffByOne(l) ==
    {Img(ImageWidth(l) + d[1], ImageHeight(l) + d[2], White, {}) : d \in Deltas}

\* the drawable block of the glyph at grid (r, c), in one colour
GlyphBlock(l, r, c, rgb) ==
    Rect(SampleX(l, c, 1), SampleX(l, c, WidthOf(l) - 1),
         SampleY(l, r, 1), SampleY(l, r, HeightOf(l) - 1), rgb)

\* one pixel of the glyph at grid (r, c)
GlyphDot(l, r, c, w, hh, rgb) == Dot(SampleX(l, c, w), SampleY(l, r, hh), rgb)

\* level 0 with an all-black glyph and two glyphs of one black pixel each
BlackInk0 ==
    Valid(0, {GlyphBlock(0, 0, 0, Black),
              GlyphDot(0, 0, 1, 1, 1, Black),
              GlyphDot(0, 0, 2, WidthOf(0) - 1, 2, Black)})

\* a third colour early in the level: glyph (0, 1), pixel row 2
EarlyBad(l) == Valid(l, {GlyphDot(l, 0, 1, 2, 2, Grey)})

\* a third colour in the last pixel of the last glyph the level packs
LateBad(l) ==
    LET c == IF l = HoleLevel THEN HoleCol - 1 ELSE GridCols - 1
    IN Valid(l, {GlyphDot(l, GridRows - 1, c, WidthOf(l) - 1, HeightOf(l) - 1, NearBlack)})

\* the last level with a third colour in the reserved slot and on a
\* gridline, and one black pixel in the last column of glyph (0, 0)
Marked9 ==
    Valid(HoleLevel, {GlyphBlock(HoleLevel, HoleRow, HoleCol, Grey),
                      Dot(0, 0, Grey),
                      GlyphDot(HoleLevel, 0, 0, WidthOf(HoleLevel) - 1, 1, Black)})

\* sizes far from the expected one: the atlas of the next level under this
\* level's name, and an atlas with its two sides exchanged
OtherSize(l) ==
    {Valid((l + 1) % NumLevels, {}), Img(ImageHeight(l), ImageWidth(l), White, {})}

Family(l) ==
    {Missing, Valid(l, {}), EarlyBad(l)} \cup OffByOne(l) \cup OtherSize(l)
    \cup (IF l = 0 THEN {BlackInk0, LateBad(l)} ELSE {})
    \cup (IF l = HoleLevel THEN {Marked9, LateBad(l)} ELSE {})

Ascending == [k \in 1 .. NumLevels |-> k - 1]

Reversed == [k \in 1 .. NumLevels |-> NumLevels - k]

Listings == {Ascending, Reversed}

\* the file taken by its place in the listing instead of by its name
ImageAtPosition(d, ls, l) == d[ls[l + 1]]

\* line 30: the file is found by its name, whatever the listing order
ImageNamed(d, ls, l) == d[l]

-----------------------------------------------------------------------------
(* encode_hzk_file *)

NoError == [type |-> "none", level |-> 0, detail |-> <<>>]

NoPrev == [ran |-> FALSE, file |-> <<>>, err |-> NoError, at |-> <<>>]

NoWrite == [key |-> <<>>, bytes |-> <<>>]

NotDecoded == [ran |-> FALSE, levels |-> <<>>, images |-> <<>>, consumed |-> 0,
               raised |-> "none"]

Malformed == -1

\* every colour but black taken for white
PixelBitLenient(rgb) == IF rgb = Black THEN 1 ELSE 0

\* lines 62-72: black is 1, white is 0, anything else raises
PixelBit(rgb) ==
    IF rgb = Black THEN 1 ELSE IF rgb = White THEN 0 ELSE Malformed

\* the height checked and the width forgotten
DimsOkHeightOnly(im, l) == im.height = ImageHeight(l)

\* an image at least as large as expected passes, to be read from its top left
DimsOkAtLeast(im, l) == im.height >= ImageHeight(l) /\ im.width >= ImageWidth(l)

\* lines 37-38
DimsOk(im, l) == im.height = ImageHeight(l) /\ im.width = ImageWidth(l)

\* a successor that stays on the slot it is given
SuccStay(s) == s

\* lines 48-49: the slot after s in range(8) x range(16)
Succ(s) == IF s[2] + 1 < GridCols THEN <<s[1], s[2] + 1>> ELSE <<s[1] + 1, 0>>

\* lines 48-51: the slot the loops reach from s, passing over every hole
RECURSIVE SkipHoles(_, _)
SkipHoles(l, s) ==
    IF s[1] < GridRows /\ IsHole(l, s[1], s[2]) THEN SkipHoles(l, Succ(s)) ELSE s

\* lines 57-59: the pixels of pixel row hh of the glyph at grid (r, c)
RowPixels(im, l, r, c, hh) ==
    [w \in 1 .. WidthOf(l) - 1 |-> Pixel(im, SampleX(l, c, w), SampleY(l, r, hh))]

\* the first n coordinates line 58 reads in that pixel row, with their level
RowCoords(l, r, c, hh, n) ==
    [w \in 1 .. n |-> <<l, SampleX(l, c, w), SampleY(l, r, hh)>>]

Min(S) == CHOOSE x \in S : \A y \in S : x <= y

\* bytes a destination file may hold before the run
Stale == Runs(<<72, 90, 75>>)

BitsIdle == bits_in = <<>> /\ bit_array = <<>> /\ packed = <<>> /\ bpc = "unused"

NoArgs == [screen |-> "none"]

NoDir == [kind |-> "none"]

BuildIdle ==
    rpc = "unused" /\ args = NoArgs /\ outdir = NoDir /\ rerr = "none" /\ fslog = <<>>

EncIdle ==
    /\ pc = "idle"
    /\ i = 0 /\ row = 0 /\ col = 0 /\ h = 1
    /\ img = NoImage
    /\ out_open = FALSE
    /\ err = NoError
    /\ prev = NoPrev
    /\ slots = {}
    /\ sampled = <<>>
    /\ last = NoWrite
    /\ decoded = NotDecoded

Init ==
    /\ EncIdle
    /\ file \in {<<>>, Stale}
    /\ dir = [l \in Levels |-> Unread]
    /\ listing = Ascending
    /\ BitsIdle
    /\ BuildIdle

\* the file opened for appending: what it held stays
OpenOutputAppend(f) == f

\* line 25: open(output_filename, 'wb') empties the file
OpenOutput(f) == <<>>

\* line 25, reached from main (line 162): the state encode_hzk_file starts in
Begin(p, ls) ==
    /\ prev' = p
    /\ listing' = ls
    /\ file' = OpenOutput(file)
    /\ out_open' = TRUE
    /\ err' = NoError
    /\ i' = 0 /\ row' = 0 /\ col' = 0 /\ h' = 1
    /\ img' = NoImage
    /\ slots' = {}
    /\ sampled' = <<>>
    /\ last' = NoWrite
    /\ decoded' = NotDecoded
    /\ pc' = "level"
    /\ UNCHANGED <<dir, bitVars, buildVars>>

\* the first encode of the directory
EncodeStart ==
    /\ pc = "idle"
    /\ Begin(prev, listing)

\* a later encode of the same directory, which may be listed in another order
EncodeAgain ==
    /\ pc \in {"done", "raised"}
    /\ \E ls \in Listings :
          Begin([ran |-> TRUE, file |-> file, err |-> err, at |-> <<i, row, col, h>>], ls)

\* the loop with the open wrapped in try/except FileNotFoundError: continue,
\* so that a level whose image is missing is passed over
OpenLevelSkipMissing ==
    /\ pc = "level"
    /\ i < NumLevels
    /\ \E content \in (IF dir[i] = Unread THEN Family(i) ELSE {dir[i]}) :
        /\ dir' = [dir EXCEPT ![i] = content]
        /\ LET im == ImageNamed(dir', listing, i)
           IN IF im.kind = "missing"
              THEN /\ i' = i + 1
                   /\ pc' = "level"
                   /\ img' = NoImage
                   /\ err' = err
                   /\ UNCHANGED <<row, col, h>>
              ELSE IF ~DimsOk(im, i)
              THEN /\ err' = [type |-> "AssertionError", level |-> i,
                              detail |-> <<im.width, im.height>>]
                   /\ pc' = "raised"
                   /\ img' = NoImage
                   /\ UNCHANGED <<i, row, col, h>>
              ELSE LET s == SkipHoles(i, <<0, 0>>)
                   IN /\ img' = im
                      /\ row' = s[1] /\ col' = s[2] /\ h' = 1
                      /\ pc' = "rows"
                      /\ err' = err
                      /\ i' = i
    /\ slots' = {}
    /\ sampled' = <<>>
    /\ UNCHANGED <<out_open, file, listing, prev, last, decoded, bitVars, buildVars>>

\* lines 26-47: the next level's image is opened and its size checked
OpenLevel ==
    /\ pc = "level"
    /\ i < NumLevels
    /\ \E content \in (IF dir[i] = Unread THEN Family(i) ELSE {dir[i]}) :
        /\ dir' = [dir EXCEPT ![i] = content]
        /\ LET im == ImageNamed(dir', listing, i)
           IN IF im.kind = "missing"
              THEN /\ err' = [type |-> "FileNotFoundError", level |-> i, detail |-> <<>>]
                   /\ pc' = "raised"
                   /\ img' = NoImage
                   /\ UNCHANGED <<row, col, h>>
              ELSE IF ~DimsOk(im, i)
              THEN /\ err' = [type |-> "AssertionError", level |-> i,
                              detail |-> <<im.width, im.height>>]
                   /\ pc' = "raised"
                   /\ img' = NoImage
                   /\ UNCHANGED <<row, col, h>>
              ELSE LET s == SkipHoles(i, <<0, 0>>)
                   IN /\ img' = im
                      /\ row' = s[1] /\ col' = s[2] /\ h' = 1
                      /\ pc' = "rows"
                      /\ err' = err
    /\ slots' = {}
    /\ sampled' = <<>>
    /\ UNCHANGED <<i, out_open, file, listing, prev, last, decoded, bitVars, buildVars>>

\* lines 53-73: one pass of the h loop, then the loops' steps to the next pass
RowStep ==
    /\ pc = "rows"
    /\ LET px == RowPixels(img, i, row, col, h)
           bits == [w \in DOMAIN px |-> PixelBit(px[w])]
           bad == {w \in DOMAIN px : bits[w] = Malformed}
       IN IF bad # {}
          THEN /\ err' = [type |-> "ValueError", level |-> i, detail |-> px[Min(bad)]]
               /\ sampled' = RowCoords(i, row, col, h, Min(bad))
               /\ pc' = "raised"
               /\ img' = NoImage
               /\ UNCHANGED <<i, row, col, h, file, slots, last>>
          ELSE /\ file' = Concat(file, bits_to_byte_array(bits))
               /\ last' = [key |-> <<i, row, col, h>>, bytes |-> bits_to_byte_array(bits)]
               /\ sampled' = RowCoords(i, row, col, h, Len(px))
               /\ err' = err
               /\ IF h + 1 < HeightOf(i)
                  THEN /\ h' = h + 1
                       /\ UNCHANGED <<i, row, col, img, slots, pc>>
                  ELSE LET s == SkipHoles(i, Succ(<<row, col>>))
                       IN /\ slots' = slots \cup {<<row, col>>}
                          /\ IF s[1] < GridRows
                             THEN /\ row' = s[1] /\ col' = s[2] /\ h' = 1
                                  /\ UNCHANGED <<i, img, pc>>
                             ELSE /\ i' = i + 1
                                  /\ img' = NoImage
                                  /\ pc' = "level"
                                  /\ UNCHANGED <<row, col, h>>
    /\ UNCHANGED <<out_open, dir, listing, prev, decoded, bitVars, buildVars>>

\* line 75: after the last level the output file is closed
EncodeFinish ==
    /\ pc = "level"
    /\ i = NumLevels
    /\ out_open' = FALSE
    /\ pc' = "done"
    /\ UNCHANGED <<i, row, col, h, img, file, err, dir, listing, prev, slots,
                   sampled, last, decoded, bitVars, buildVars>>

-----------------------------------------------------------------------------
(* decode_hzk_file *)

\* lines 88-91: the file is opened, the loop is entered at level 0, and its
\* first pass returns: nothing is read from the file, no image is made and
\* no error is raised
DecodeRun ==
    /\ pc \in {"idle", "done", "raised"}
    /\ decoded' = [ran |-> TRUE, levels |-> <<0>>, images |-> <<>>, consumed |-> 0,
                   raised |-> "none"]
    /\ pc' = "decoded"
    /\ UNCHANGED <<i, row, col, h, img, out_open, file, err, dir, listing, prev,
                   slots, sampled, last, bitVars, buildVars>>

Next == EncodeStart \/ OpenLevel \/ RowStep \/ EncodeFinish \/ DecodeRun

Spec == Init /\ [][Next]_vars

-----------------------------------------------------------------------------
(* Two encodes of one directory.  The directory is known from the start.    *)

\* encode_hzk_file is straight-line code over bounded loops with no wait in
\* it: once called it keeps taking its next step
SpecLive == Spec /\ WF_vars(OpenLevel \/ RowStep \/ EncodeFinish)

AllWhite == [l \in Levels |-> Valid(l, {})]

Inked == [AllWhite EXCEPT ![0] = BlackInk0]

Directories ==
    {Inked,
     [Inked EXCEPT ![1] = Missing],
     [Inked EXCEPT ![1] = EarlyBad(1)],
     [Inked EXCEPT ![2] = EarlyBad(2)],
     [AllWhite EXCEPT ![0] = LateBad(0)]}
    \cup {[Inked EXCEPT ![1] = im] : im \in OffByOne(1)}

InitTwice ==
    /\ EncIdle
    /\ file \in {<<>>, Stale}
    /\ dir \in Directories
    /\ listing = Ascending
    /\ BitsIdle
    /\ BuildIdle

NextTwice == EncodeStart \/ EncodeAgain \/ OpenLevel \/ RowStep \/ EncodeFinish

SpecTwice == InitTwice /\ [][NextTwice]_vars

-----------------------------------------------------------------------------
(* bits_to_byte_array called on its own *)

MaxBits == 8

RECURSIVE BitLists(_)
BitLists(n) ==
    IF n = 0 THEN {<<>>}
    ELSE LET shorter == BitLists(n - 1)
         IN shorter \cup {Append(b, v) : b \in {x \in shorter : Len(x) = n - 1}, v \in {0, 1}}

InitBits ==
    /\ EncIdle
    /\ file = <<>>
    /\ dir = [l \in Levels |-> Unread]
    /\ listing = Ascending
    /\ bits_in \in BitLists(MaxBits)
    /\ bit_array = bits_in
    /\ packed = <<>>
    /\ bpc = "ready"
    /\ BuildIdle

\* lines 94-105: the call pads the caller's list and returns the bytearray
CallBits ==
    /\ bpc = "ready"
    /\ packed' = bits_to_byte_array(bit_array)
    /\ bit_array' = PadBits(bit_array)
    /\ bpc' = "returned"
    /\ UNCHANGED <<pc, i, row, col, h, img, out_open, file, err, dir, listing, prev,
                   slots, sampled, last, decoded, bits_in, buildVars>>

NextBits == CallBits

SpecBits == InitBits /\ [][NextBits]_vars

-----------------------------------------------------------------------------
(* run_build of src/creality_dwin_lcd_customizer.py: the checks of its     *)
(* arguments and the copy of the baseline into the DWIN_SET directory      *)

\* a path argument: the extension its name ends with, and what is found there
Path(ext, kind) == [ext |-> ext, kind |-> kind]

\* str.lower() on the extensions that occur
Lower(e) ==
    CASE e = "HZK" -> "hzk"
      [] e = "JPG" -> "jpg"
      [] OTHER -> e

\* the check of the name alone
validate_file_name_only(f, types) == Lower(f.ext) \in types

\* lines 497-506: TRUE when validate_file returns, FALSE when it raises
validate_file(f, types) == Lower(f.ext) \in types /\ f.kind = "file"

\* lines 535-544: the validate_file calls made for the screen, in order
FileChecks(a) ==
    <<[f |-> a.font, types |-> {"hzk"}, msg |-> "Invalid font file"]>>
    \o (IF a.screen = "T5UIC1"
        THEN <<[f |-> a.icon, types |-> {"ico"}, msg |-> "Invalid icon pack"],
               [f |-> a.boot, types |-> {"jpeg", "jpg"}, msg |-> "Invalid bootscreen image"],
               [f |-> a.logo, types |-> {"jpeg", "jpg"}, msg |-> "Invalid logo image"]>>
        ELSE IF a.screen = "T5UID1"
        THEN <<[f |-> a.boot, types |-> {"bmp"}, msg |-> "Invalid bootscreen image"]>>
        ELSE <<>>)

\* the message of the first call that raises, "none" when all return
FirstFailure(checks) ==
    LET bad == {k \in DOMAIN checks : ~validate_file(checks[k].f, checks[k].types)}
    IN IF bad = {} THEN "none" ELSE checks[Min(bad)].msg

\* lines 561-562: the condition under which the marlin path is refused
MarlinBad(m) == ~m.given \/ ~m.exists \/ ~m.access

\* the DWIN_SET path: what is there, whether os.access grants W_OK | X_OK,
\* the names in it, and whether mkdir can make it when it is absent
Dir(kind, access, entries, creatable) ==
    [kind |-> kind, access |-> access, entries |-> entries, creatable |-> creatable]

OutDirs ==
    {Dir("absent", FALSE, {}, TRUE), Dir("absent", FALSE, {}, FALSE),
     Dir("dir", TRUE, {"old.bin"}, TRUE), Dir("dir", FALSE, {"old.bin"}, TRUE),
     Dir("file", TRUE, {}, TRUE)}

Marlins ==
    {[given |-> FALSE, exists |-> FALSE, access |-> FALSE],
     [given |-> TRUE, exists |-> FALSE, access |-> FALSE],
     [given |-> TRUE, exists |-> TRUE, access |-> FALSE],
     [given |-> TRUE, exists |-> TRUE, access |-> TRUE]}

ArgSets ==
    [screen : {"T5UIC1", "T5UID1", "T5L"},
     font : {Path("hzk", "file"), Path("HZK", "file"), Path("hzk", "absent"),
             Path("txt", "file")},
     icon : {Path("ico", "file"), Path("ico", "absent")},
     boot : {Path("jpg", "file"), Path("JPG", "file"), Path("bmp", "file"),
             Path("jpg", "dir")},
     logo : {Path("jpeg", "file"), Path("png", "file")},
     outdir : OutDirs,
     compile_mainboard : BOOLEAN,
     marlin : Marlins,
     baseline : {"present", "absent"}]

\* the names the baseline directory holds
BaselineEntries == {"T5UIC1.CFG"}

InitBuild ==
    /\ EncIdle
    /\ file = <<>>
    /\ dir = [l \in Levels |-> Unread]
    /\ listing = Ascending
    /\ BitsIdle
    /\ rpc = "validate"
    /\ args \in ArgSets
    /\ outdir = args.outdir
    /\ rerr = "none"
    /\ fslog = <<>>

encVars == <<pc, i, row, col, h, img, out_open, file, err, dir, listing, prev,
             slots, sampled, last, decoded>>

\* lines 535-544
ValidateFiles ==
    /\ rpc = "validate"
    /\ LET m == FirstFailure(FileChecks(args))
       IN IF m # "none"
          THEN rerr' = m /\ rpc' = "raised"
          ELSE rerr' = rerr /\ rpc' = "outdir"
    /\ UNCHANGED <<args, outdir, fslog, encVars, bitVars>>

\* lines 545-555: an existing path must grant access; an absent one is made
CheckOutputDir ==
    /\ rpc = "outdir"
    /\ IF outdir.kind # "absent"
       THEN /\ IF outdir.access
               THEN rerr' = rerr /\ rpc' = "marlin"
               ELSE rerr' = "Output directory is inaccessible!" /\ rpc' = "raised"
            /\ UNCHANGED <<outdir, fslog>>
       ELSE IF outdir.creatable
       THEN /\ outdir' = Dir("dir", TRUE, {}, TRUE)
            /\ fslog' = Append(fslog, "mkdir")
            /\ rerr' = rerr /\ rpc' = "marlin"
       ELSE /\ rerr' = "Output directory is inaccessible!" /\ rpc' = "raised"
            /\ UNCHANGED <<outdir, fslog>>
    /\ UNCHANGED <<args, encVars, bitVars>>

\* lines 556-563
CheckMarlin ==
    /\ rpc = "marlin"
    /\ IF args.compile_mainboard /\ MarlinBad(args.marlin)
       THEN rerr' = "Specified --marlin-path is invalid!" /\ rpc' = "raised"
       ELSE rerr' = rerr /\ rpc' = "copy"
    /\ UNCHANGED <<args, outdir, fslog, encVars, bitVars>>

\* line 575 and lines 461-469: rm_rf of the DWIN_SET path, then copytree of
\* the baseline, which raises when the baseline is not there
CopyBaseline ==
    /\ rpc = "copy"
    /\ IF args.baseline = "present"
       THEN /\ outdir' = Dir("dir", TRUE, BaselineEntries, TRUE)
            /\ fslog' = fslog \o <<"rm_rf", "copytree">>
            /\ rerr' = rerr /\ rpc' = "assemble"
       ELSE /\ outdir' = Dir("absent", FALSE, {}, TRUE)
            /\ fslog' = Append(fslog, "rm_rf")
            /\ rerr' = "copytree: no such directory" /\ rpc' = "raised"
    /\ UNCHANGED <<args, encVars, bitVars>>

\* lines 577-636: the files of the build are copied in and compiled; a step
\* of it may fail
FinishBuild ==
    /\ rpc = "assemble"
    /\ \E ok \in BOOLEAN :
          IF ok
          THEN /\ outdir' = [outdir EXCEPT !.entries = @ \cup {"font.HZK"}]
               /\ fslog' = Append(fslog, "copy_file")
               /\ rerr' = rerr /\ rpc' = "built"
          ELSE /\ rerr' = "build step failed" /\ rpc' = "raised"
               /\ UNCHANGED <<outdir, fslog>>
    /\ UNCHANGED <<args, encVars, bitVars>>

NextBuild == ValidateFiles \/ CheckOutputDir \/ CheckMarlin \/ CopyBaseline \/ FinishBuild

SpecBuild == InitBuild /\ [][NextBuild]_vars

-----------------------------------------------------------------------------
(* Properties *)

RECURSIVE Pow2(_)
Pow2(n) == IF n = 0 THEN 1 ELSE 2 * Pow2(n - 1)

\* bit k of the list extended with zeros
BitAt(b, k) == IF k <= Len(b) THEN b[k] ELSE 0

\* ceil(n/8) bytes, the first bit of each group of eight the most significant
PackedBytes(b) ==
    [k \in 1 .. ((Len(b) + 7) \div 8) |->
        LET RECURSIVE Sum(_)
            Sum(j) == IF j < 0 THEN 0
                      ELSE BitAt(b, 8 * (k - 1) + j + 1) * Pow2(7 - j) + Sum(j - 1)
        IN Sum(7)]

\* C1: for every list of bits of length n, bits_to_byte_array returns
\* ceil(n/8) bytes, byte k being the sum of b'[8k+j] * 2^(7-j) over j in 0..7
\* with b' the list extended by zeros to a multiple of 8.
Claim_C1 == bpc = "returned" => packed = Runs(PackedBytes(bits_in))

\* the pixel row the h loop is about to read is black throughout
AllBlackRow ==
    \A w \in 1 .. WidthOf(i) - 1 :
        Pixel(dir[i], SampleX(i, col, w), SampleY(i, row, h)) = Black

\* C2: at level 0 (width 6) a pixel row of an all-black glyph is five 1s and
\* the encoder writes for it exactly one byte, 0b11111000.
Claim_C2 ==
    [][(pc = "rows" /\ i = 0 /\ AllBlackRow)
         => (WidthOf(i) - 1 = 5 /\ file' = Concat(file, Runs(<<248>>)))]_vars

GlyphCount(l) == IF l = 9 THEN 127 ELSE 128

WhiteLen ==
    LET RECURSIVE Sum(_)
        Sum(l) == IF l < 0 THEN 0
                  ELSE GlyphCount(l) * (HeightOf(l) - 1) * ((WidthOf(l) - 1 + 7) \div 8)
                       + Sum(l - 1)
    IN Sum(NumLevels - 1)

\* C3: with ten valid atlases whose drawable pixels are all white, the bytes
\* written number the sum over the levels of glyphs x rows x ceil((width-1)/8),
\* with 127 glyphs at the level of the reserved hole and 128 elsewhere.
Claim_C3 == (pc = "done" /\ dir = AllWhite) => ByteLen(file) = WhiteLen

\* an image one pixel larger or smaller than level l expects, in either axis
OffSize(im, l) ==
    /\ im.kind = "image"
    /\ \/ im.width \in {ImageWidth(l) - 1, ImageWidth(l) + 1}
       \/ im.height \in {ImageHeight(l) - 1, ImageHeight(l) + 1}

\* C4 as stated: an atlas one pixel off in either axis is rejected with the
\* dimension error before any byte has been written to the output in that run.
Claim_C4 ==
    (i \in Levels /\ OffSize(dir[i], i))
        => (err.type = "AssertionError" /\ err.level = i /\ ByteLen(file) = 0)

\* C4 as amended: an atlas one pixel off in either axis is rejected with the
\* dimension error by the step that opens it, before any pixel of that level
\* is sampled and before any byte of that level is written; the bytes of the
\* levels before it stay in the output.
Thm_C4 ==
    /\ [](pc = "rows" => (dir[i].width = ImageWidth(i) /\ dir[i].height = ImageHeight(i)))
    /\ [][(pc = "level" /\ i < NumLevels /\ OffSize(dir'[i], i))
            => /\ pc' = "raised"
               /\ err' = [type |-> "AssertionError", level |-> i,
                          detail |-> <<dir'[i].width, dir'[i].height>>]
               /\ file' = file
               /\ sampled' = <<>>
               /\ last' = last
               /\ (last.key = <<>> \/ last.key[1] < i)]_vars

Witness_C4 ==
    pc = "raised" /\ err.type = "AssertionError" /\ err.level >= 1 /\ ByteLen(file) > 0

\* the pixel row the h loop is about to read holds a colour that is neither
\* black nor white
ThirdColour ==
    \E w \in 1 .. WidthOf(i) - 1 :
        Pixel(dir[i], SampleX(i, col, w), SampleY(i, row, h)) \notin {Black, White}

\* C5: a sampled pixel that is neither (0,0,0) nor (255,255,255) raises the
\* malformed-pixel error and ends the encode: its row writes nothing, and
\* after the error no glyph, row or level is read and no byte is written.
Thm_C5 ==
    /\ [][(pc = "rows" /\ ThirdColour)
            => /\ pc' = "raised"
               /\ err'.type = "ValueError" /\ err'.level = i
               /\ err'.detail \notin {Black, White}
               /\ file' = file /\ last' = last
               /\ <<i, row, col, h>>' = <<i, row, col, h>>]_vars
    /\ [][pc = "raised"
            => /\ pc' \notin {"level", "rows", "done"}
               /\ file' = file /\ last' = last /\ sampled' = sampled
               /\ <<i, row, col, h>>' = <<i, row, col, h>>]_vars

Witness_C5 ==
    /\ pc = "raised" /\ err.type = "ValueError" /\ err.detail = NearBlack
    /\ row = GridRows - 1 /\ h = HeightOf(i) - 1

\* a coordinate <<level, x, y>> inside the cell of level 9, row 7, column 15
InHoleCell(s) ==
    s[1] = 9 /\ s[2] > 15 * (WidthOf(9) + 1) /\ s[3] > 7 * (HeightOf(9) + 1)

\* the slots of level l that are packed
SlotsOf(l) ==
    {<<r, c>> : r \in 0 .. 7, c \in 0 .. 15} \ (IF l = 9 THEN {<<7, 15>>} ELSE {})

\* C6: the slot (level 9, row 7, column 15) is never sampled and never
\* written, and it is the only one: when a level is finished every other
\* slot of it has been sampled and written.
Thm_C6 ==
    /\ \A k \in DOMAIN sampled : ~InHoleCell(sampled[k])
    /\ (pc = "rows" => ~(i = 9 /\ row = 7 /\ col = 15))
    /\ (last.key # <<>> => ~(last.key[1] = 9 /\ last.key[2] = 7 /\ last.key[3] = 15))
    /\ (i = 9 /\ pc # "level" => <<7, 15>> \notin slots)
    /\ (pc = "level" /\ i > 0 => slots = SlotsOf(i - 1))
    /\ (pc = "done" => slots = SlotsOf(9))

Witness_C6 == pc = "done" /\ dir[9] = Marked9

\* a before b in the lexicographic order of tuples of one length
LexLess(a, b) ==
    \E k \in DOMAIN a : a[k] < b[k] /\ \A j \in 1 .. k - 1 : a[j] = b[j]

\* the bits of the pixel row at key <<level, row, column, pixel row>>
RowBitsOf(im, key) ==
    [w \in 1 .. WidthOf(key[1]) - 1 |->
        IF Pixel(im, SampleX(key[1], key[3], w), SampleY(key[1], key[2], key[4])) = Black
        THEN 1 ELSE 0]

\* C7: the output is the per-row byte runs, appended in strictly ascending
\* order of (level, grid row, grid column, pixel row) to a file that starts
\* empty, with nothing between them; the image of a level is the file named
\* for that level, whatever the order of the directory listing.
Thm_C7 ==
    /\ [](pc = "rows" => img = dir[i])
    /\ [](err.type = "AssertionError"
            => /\ dir[err.level].kind = "image"
               /\ <<dir[err.level].width, dir[err.level].height>>
                    # <<ImageWidth(err.level), ImageHeight(err.level)>>)
    /\ [](err.type = "FileNotFoundError" => dir[err.level] = Missing)
    /\ [](pc = "level" /\ i = 0 => file = <<>>)
    /\ [][(last' # last /\ last'.key # <<>>)
            => /\ file' = Concat(file, last'.bytes)
               /\ last'.bytes = bits_to_byte_array(RowBitsOf(dir[last'.key[1]], last'.key))
               /\ (last.key # <<>> => LexLess(last.key, last'.key))]_vars
    /\ [][file' # file
            => \/ last' # last /\ last'.key # <<>>
               \/ pc' = "level" /\ i' = 0 /\ file' = <<>>]_vars

\* under the reversed listing, rows of a third level appended to earlier bytes
Witness_C7 ==
    listing = Reversed /\ last.key # <<>> /\ last.key[1] = 2 /\ ByteLen(file) > 0

\* C8: a second encode of the same directory ends as the first did: the same
\* bytes in the output, and either completion or the same error at the same
\* place.
Thm_C8 ==
    (prev.ran /\ pc \in {"done", "raised"})
        => (file = prev.file /\ err = prev.err /\ <<i, row, col, h>> = prev.at)

\* a second run that ended at the malformed pixel where the first did
Witness_C8 ==
    prev.ran /\ pc = "raised" /\ err.type = "ValueError" /\ ByteLen(file) > 0

\* the drawable pixels of every packed glyph of a level's atlas
GlyphPixels(im, l) ==
    [s \in SlotsOf(l) |->
        [hh \in 1 .. HeightOf(l) - 1 |-> RowPixels(im, l, s[1], s[2], hh)]]

\* C9: decode applied to the output of a completed encode rebuilds atlases
\* whose glyph pixels equal the originals'.
Claim_C9 ==
    (pc = "decoded" /\ i = NumLevels /\ err = NoError)
        => /\ Len(decoded.images) = NumLevels
           /\ \A l \in Levels :
                GlyphPixels(decoded.images[l + 1], l) = GlyphPixels(dir[l], l)

\* C10: decode goes through the ten levels in ascending order, takes from
\* the packed file the bytes the encoder wrote for each, and makes one atlas
\* image per level.
Claim_C10 ==
    (pc = "decoded" /\ i = NumLevels /\ err = NoError)
        => /\ decoded.levels = Ascending
           /\ Len(decoded.images) = NumLevels
           /\ decoded.consumed = ByteLen(file)

\* C11: whenever encode_hzk_file has exited, by finishing or by raising, the
\* image it had open and the output file it opened are both closed
Claim_C11 == pc \in {"done", "raised"} => (img = NoImage /\ out_open = FALSE)

\* C12: when the image file of level l is missing, the step that opens level l
\* raises an error at level l and writes nothing; the run then stands still:
\* it never passes level l, never samples a pixel of it, and never completes
Thm_C12 ==
    /\ [][(pc = "level" /\ i < NumLevels /\ dir'[i].kind = "missing")
            => /\ pc' = "raised"
               /\ err'.type = "FileNotFoundError" /\ err'.level = i
               /\ i' = i
               /\ file' = file
               /\ sampled' = <<>>]_vars
    /\ [][(pc = "raised" /\ err.type = "FileNotFoundError")
            => (pc' \notin {"level", "rows", "done"} /\ i' = i /\ file' = file)]_vars
    /\ [](\A l \in Levels :
            dir[l].kind = "missing"
                => (i <= l /\ pc # "done" /\ (i = l => pc \notin {"rows", "level"})))

Witness_C12 ==
    /\ pc = "raised"
    /\ err.type = "FileNotFoundError" /\ err.level = 2
    /\ dir[2] = Missing
    /\ ByteLen(file) > 0

\* C13: after bits_to_byte_array returns, the list the caller passed holds the
\* elements it held before the call, in the same number
Claim_C13 == bpc = "returned" => bit_array = bits_in

\* C14: when decode_hzk_file has been given a file with fewer bytes than the
\* ten levels take, it has raised a truncated-input error, and the error names
\* a level
Claim_C14 ==
    (decoded.ran /\ ByteLen(file) < WhiteLen)
        => (decoded.raised = "truncated input" /\ decoded.levels # <<>>)

\* the place of the pixel row last read: where the run stopped when the row
\* raised, otherwise the row last written
SampledKey == IF err.type = "ValueError" THEN <<i, row, col, h>> ELSE last.key

\* C15: the pixels read for pixel row hh of the glyph at grid row r, column c
\* of level l are those at x = c*(width+1)+w, y = r*(height+1)+hh for
\* w = 1..width-1 in turn (all of them unless the row raised), with r in 0..7,
\* c in 0..15 and hh in 1..height-1; each lies inside the expected image and on
\* no gridline. Within a glyph the rows are read for hh = 1, 2, ..., height-1,
\* one after the other, so a glyph's reads are the whole (width-1) x (height-1)
\* block and nothing else
Thm_C15 ==
    /\ [](sampled # <<>> =>
            LET l == SampledKey[1]
                r == SampledKey[2]
                c == SampledKey[3]
                hh == SampledKey[4]
                wd == PIXEL_WIDTHS[l + 1]
                ht == 2 * wd
            IN /\ l \in 0..9 /\ r \in 0..7 /\ c \in 0..15 /\ hh \in 1..(ht - 1)
               /\ Len(sampled) <= wd - 1
               /\ err.type # "ValueError" => Len(sampled) = wd - 1
               /\ \A w \in DOMAIN sampled :
                     LET x == sampled[w][2]
                         y == sampled[w][3]
                     IN /\ sampled[w][1] = l
                        /\ x = c * (wd + 1) + w
                        /\ y = r * (ht + 1) + hh
                        /\ x < (wd + 1) * 16 + 1
                        /\ y < (ht + 1) * 8 + 1
                        /\ x % (wd + 1) # 0
                        /\ y % (ht + 1) # 0)
    /\ [](pc = "rows" => h \in 1..(2 * PIXEL_WIDTHS[i + 1] - 1))
    /\ [][(pc = "rows" /\ pc' # "raised") =>
            /\ last'.key = <<i, row, col, h>>
            /\ IF h < 2 * PIXEL_WIDTHS[i + 1] - 1
               THEN pc' = "rows" /\ <<i', row', col'>> = <<i, row, col>> /\ h' = h + 1
               ELSE pc' = "level" \/ (pc' = "rows" /\ i' = i
                                      /\ <<row', col'>> # <<row, col>> /\ h' = 1)]_vars
    /\ [][(pc = "level" /\ pc' = "rows") => h' = 1]_vars

Witness_C15 ==
    /\ pc = "level" /\ i = 2
    /\ last.key = <<1, 7, 15, 15>>
    /\ Len(sampled) = 7
    /\ sampled[7] = <<1, 142, 134>>

\* a glyph of level 0 has just been finished: its last row is the row last
\* written
GlyphDone0 ==
    /\ last.key # <<>> /\ last.key[1] = 0
    /\ <<last.key[2], last.key[3]>> \in slots
    /\ (i = 0 \/ (i = 1 /\ pc = "level"))

\* C16: at the width-6 level the last row written for a finished glyph is its
\* 10th, and the row's bit run has 5 bits: a glyph takes 10 calls of the packer
\* and 10 writes
Claim_C16 == GlyphDone0 => (last.key[4] = 10 /\ Len(sampled) = 5)

\* C16, amended: at the width-6 level a glyph is written as pixel rows
\* 1, 2, ..., 11 in turn, one pack and one write of a 5-bit run for each, and
\* is finished by the 11th: 11 writes per glyph
Thm_C16 ==
    /\ [](GlyphDone0 => (last.key[4] = 11 /\ Len(sampled) = 5))
    /\ [](pc = "rows" /\ i = 0 /\ h = 1
            => (last.key = <<>> \/ <<last.key[2], last.key[3]>> # <<row, col>>))
    /\ [][(pc = "rows" /\ i = 0 /\ pc' # "raised") =>
            /\ last'.key = <<0, row, col, h>>
            /\ Len(sampled') = 5
            /\ ByteLen(file') = ByteLen(file) + ByteLen(last'.bytes)
            /\ h < 11 => (h' = h + 1 /\ <<row', col'>> = <<row, col>>
                          /\ <<row, col>> \notin slots')
            /\ h >= 11 => (h = 11 /\ <<row, col>> \in slots')]_vars

Witness_C16 ==
    /\ pc = "rows" /\ i = 0
    /\ last.key = <<0, 0, 0, 11>>
    /\ <<0, 0>> \in slots
    /\ <<row, col, h>> = <<0, 1, 1>>

\* the size the claim states for a level of glyph width wd
ExactSize(im, wd) == im.width = (wd + 1) * 16 + 1 /\ im.height = (2 * wd + 1) * 8 + 1

\* C17: an image opened for level i is taken, as it is, exactly when its width
\* is (width+1)*16+1 and its height (height+1)*8+1 with height = 2*width; an
\* image of any other size raises the dimension error for level i, with nothing
\* sampled or written, and after that error no level is processed and the run
\* does not complete: the level is not passed over and the image not resized
Thm_C17 ==
    /\ [][(pc = "level" /\ i < NumLevels /\ dir'[i].kind = "image") =>
            IF ExactSize(dir'[i], PIXEL_WIDTHS[i + 1])
            THEN pc' = "rows" /\ img' = dir'[i] /\ i' = i /\ err' = NoError
            ELSE /\ pc' = "raised"
                 /\ err'.type = "AssertionError" /\ err'.level = i
                 /\ err'.detail = <<dir'[i].width, dir'[i].height>>
                 /\ i' = i /\ file' = file /\ sampled' = <<>>]_vars
    /\ [][(pc = "raised" /\ err.type = "AssertionError")
            => (pc' \notin {"level", "rows", "done"} /\ i' = i /\ file' = file)]_vars
    /\ [](pc = "rows" => (img = dir[i] /\ ExactSize(img, PIXEL_WIDTHS[i + 1])))
    /\ [](\A l \in Levels :
            (dir[l].kind = "image" /\ ~ExactSize(dir[l], PIXEL_WIDTHS[l + 1]))
                => (i <= l /\ pc # "done" /\ (i = l => pc \notin {"rows", "level"})))

Witness_C17 ==
    /\ pc = "raised"
    /\ err.type = "AssertionError" /\ err.level = 3
    /\ err.detail = <<(12 + 1) * 16 + 2, (24 + 1) * 8 + 1>>
    /\ dir[3].width = (12 + 1) * 16 + 2

\* the byte string as begins the byte string bs
IsPrefix(as, bs) ==
    \/ as = <<>>
    \/ /\ Len(as) <= Len(bs)
       /\ \A k \in 1 .. Len(as) - 1 : as[k] = bs[k]
       /\ as[Len(as)].byte = bs[Len(as)].byte
       /\ as[Len(as)].count <= bs[Len(as)].count

\* the byte string bs without its first n bytes
RECURSIVE DropBytes(_, _)
DropBytes(bs, n) ==
    IF n = 0 \/ bs = <<>> THEN bs
    ELSE IF bs[1].count <= n THEN DropBytes(Tail(bs), n - bs[1].count)
    ELSE <<[byte |-> bs[1].byte, count |-> bs[1].count - n]>> \o Tail(bs)

\* C18: the start of a run empties the destination; the step that classifies
\* a row puts that row's bytes at the end of the file and leaves the bytes
\* before them as they were; a step that raises, a malformed row among them,
\* writes nothing; and no other step touches the file, so that after an error
\* the file keeps the bytes written before it
Thm_C18 ==
    /\ [][(pc \in {"idle", "done", "raised"} /\ pc' = "level")
            => (file' = <<>> /\ out_open')]_vars
    /\ [][(pc = "rows" /\ pc' # "raised") =>
            /\ last'.key = <<i, row, col, h>>
            /\ last'.bytes = bits_to_byte_array(RowBitsOf(img, <<i, row, col, h>>))
            /\ IsPrefix(file, file')
            /\ ByteLen(file') = ByteLen(file) + ByteLen(last'.bytes)
            /\ DropBytes(file', ByteLen(file)) = last'.bytes]_vars
    /\ [][pc' = "raised" => (file' = file /\ last' = last)]_vars
    /\ [][(pc = "rows" /\ ThirdColour) => (pc' = "raised" /\ file' = file)]_vars
    /\ [][(pc \in {"level", "raised", "done", "decoded"} /\ pc' # "level")
            => file' = file]_vars
    /\ [][pc = "level" => file' = file]_vars

Witness_C18 ==
    /\ pc = "raised" /\ err.type = "ValueError"
    /\ err.level = 1
    /\ last.key = <<1, 0, 1, 1>>
    /\ <<row, col, h>> = <<0, 1, 2>>
    /\ Len(file) = 1 /\ file[1].byte = 0 /\ file[1].count >= 248
    /\ ~prev.ran

\* where a run stands: the level, whether its image is open, and the slot and
\* pixel row it is at
RunPlace == IF pc = "level" THEN <<i, 0, 0, 0, 0>> ELSE <<i, 1, row, col, h>>

\* C19: a run of encode_hzk_file that has started comes to an end: while it
\* runs it stands where one of its steps applies (before a level not yet
\* opened, after the last level, or at a row of an open image), under SpecLive
\* that step is taken, and each step either ends the run or moves it up in the
\* order of (level, slot, pixel row), which has finitely many places. The end
\* is one of two: normal completion, with no error, the output closed and each
\* of the ten levels 0..9 opened and packed, one after the other in rising
\* order; or an error raised at a level below ten. The two exclude each other,
\* a run that has raised takes no further step of the encoder, and no run
\* completes with fewer than ten levels
Thm_C19 ==
    /\ [](pc = "level" => (i = NumLevels \/ (i < NumLevels /\ dir[i] = Unread)))
    /\ [](pc = "rows" => (img = dir[i] /\ img.kind = "image" /\ ~IsHole(i, row, col)))
    /\ [](pc \in {"level", "rows"}
            => (i \in 0..10 /\ row \in 0..7 /\ col \in 0..15 /\ h \in 1..63))
    /\ [][(pc \in {"level", "rows"} /\ pc' \in {"level", "rows"})
            => LexLess(RunPlace, RunPlace')]_vars
    /\ [][(pc \in {"level", "rows"}) => pc' \in {"level", "rows", "done", "raised"}]_vars
    /\ [](pc = "done" =>
            /\ err = NoError
            /\ i = 10 /\ ~out_open
            /\ \A l \in 0..9 : dir[l].kind = "image"
            /\ last.key # <<>> /\ last.key[1] = 9)
    /\ [](pc = "raised" =>
            /\ err.type \in {"FileNotFoundError", "AssertionError", "ValueError"}
            /\ err.level = i /\ i \in 0..9)
    /\ [](pc \in {"level", "rows"} => err = NoError)
    /\ [][(i' # i) => ((pc = "rows" /\ i' = i + 1 /\ pc' = "level")
                     \/ (pc \in {"idle", "done", "raised"} /\ i' = 0 /\ pc' = "level"))]_vars
    /\ [][(dir' # dir) => (pc = "level" /\ dir[i] = Unread
                         /\ \A l \in Levels \ {i} : dir'[l] = dir[l])]_vars
    /\ [][(pc = "level" /\ i < 10) => (i' = i /\ pc' \in {"rows", "raised"})]_vars
    /\ [][(pc \in {"done", "raised"})
            => (pc' = "decoded" /\ UNCHANGED <<i, row, col, h, file, err, out_open>>)]_vars

Witness_C19 ==
    /\ pc = "raised" /\ err.type = "AssertionError"
    /\ i = 4
    /\ \A l \in 0..3 : dir[l].kind = "image"
    /\ last.key = <<3, 7, 15, 23>>

\* the checks of the call, stated over the arguments as they were passed
AllChecked(a) ==
    /\ a.font.kind = "file" /\ a.font.ext \in {"hzk", "HZK"}
    /\ a.screen = "T5UIC1" =>
          /\ a.icon.kind = "file" /\ a.icon.ext = "ico"
          /\ a.boot.kind = "file" /\ a.boot.ext \in {"jpg", "JPG", "jpeg"}
          /\ a.logo.kind = "file" /\ a.logo.ext \in {"jpg", "JPG", "jpeg"}
    /\ a.screen = "T5UID1" => (a.boot.kind = "file" /\ a.boot.ext = "bmp")
    /\ IF a.outdir.kind = "absent" THEN a.outdir.creatable ELSE a.outdir.access
    /\ a.compile_mainboard => (a.marlin.given /\ a.marlin.exists /\ a.marlin.access)

\* something has been removed from or copied into the DWIN_SET directory
Touched == \E k \in DOMAIN fslog : fslog[k] \in {"rm_rf", "copytree", "copy_file"}

ValidationErrors ==
    {"Invalid font file", "Invalid icon pack", "Invalid bootscreen image",
     "Invalid logo image", "Output directory is inaccessible!",
     "Specified --marlin-path is invalid!"}

\* C20: run_build stands before copy_baseline_files, and has removed or copied
\* anything, only when the file checks of the screen class, the check of the
\* output directory and, with compile_mainboard, the check of the marlin path
\* have all passed; and when it has raised one of the errors of these checks a
\* check did fail, nothing has been removed or copied, and the DWIN_SET
\* directory is as it was, or newly made and empty
Thm_C20 ==
    /\ [](rpc \in {"copy", "assemble", "built"} => AllChecked(args))
    /\ [](Touched => AllChecked(args))
    /\ [](rerr \in ValidationErrors =>
            /\ rpc = "raised"
            /\ ~AllChecked(args)
            /\ ~Touched
            /\ \/ outdir = args.outdir /\ fslog = <<>>
               \/ /\ fslog = <<"mkdir">> /\ args.outdir.kind = "absent"
                  /\ outdir.kind = "dir" /\ outdir.entries = {})
    /\ [][(Touched' /\ ~Touched) => rpc = "copy"]_vars
    /\ [][outdir'.entries # outdir.entries => rpc \in {"copy", "assemble"}]_vars

Witness_C20 ==
    /\ rpc = "assemble"
    /\ args.screen = "T5UIC1" /\ args.compile_mainboard
    /\ args.outdir.entries = {"old.bin"}
    /\ outdir.entries = {"T5UIC1.CFG"}
    /\ fslog = <<"rm_rf", "copytree">>

====
